---- MODULE Spec2Model ----
(***************************************************************************)
(* A model of wstunnel's configuration layer:                              *)
(*   - the tunnel route parsers and the route serializer of                *)
(*     wstunnel/src/config.rs (parse_local_bind, parse_tunnel_dest,        *)
(*     parse_tunnel_arg, parse_reverse_tunnel_arg, format_local_to_remote);*)
(*   - the start-up sequence of wstunnel-cli/src/main.rs (argument         *)
(*     parsing, config loading, merging, role selection, validation and    *)
(*     the call of run_client / run_server).                               *)
(*                                                                         *)
(* A string is modelled as the sequence of its lexemes: the separators     *)
(* "://", ":", "?", "&", "=" are lexemes of their own and every other      *)
(* lexeme (an address, a port, a host, a key, a value, a path) holds none  *)
(* of the separator characters, a bracketed IPv6 literal being one lexeme. *)
(* Splitting a string at a separator character is then splitting the       *)
(* sequence at that lexeme.                                                *)
(***************************************************************************)
EXTENDS Naturals, Sequences, FiniteSets, TLC

VARIABLES
    arg,        \* route run: the route string handed to the parser
    parsed,     \* route run: result of parse_tunnel_arg(arg)
    reversed,   \* route run: result of parse_reverse_tunnel_arg(arg)
    formatted,  \* route run: format_local_to_remote(parsed value)
    reparsed,   \* route run: parse_tunnel_arg(formatted)
    rpc,        \* route run: which of the operations have been applied
    argv,       \* main: the command line (and the variables clap reads with env=)
    config_input,   \* main: what the config file and the WSTUNNEL_ variables hold
    args,       \* main: the Wstunnel struct (let mut args)
    config_file,    \* main: Option<WstunnelConfig>
    client_config_has_url,
    server_config_has_url,
    log_writer, \* main: where the logger writes once initialised
    called,     \* main: the engine entry point called, with its configuration
    error,      \* main: the message main ended with, if it ended without an engine
    pc          \* main: the next step of main

routeVars == <<arg, parsed, reversed, formatted, reparsed, rpc>>
mainVars ==
    <<argv, config_input, args, config_file, client_config_has_url, server_config_has_url,
      log_writer, called, error, pc>>
vars == <<routeVars, mainVars>>

(***************************************************************************)
(* Option<T> is the set of at most one T.                                  *)
(***************************************************************************)
None == {}
Some(x) == {x}
The(opt) == CHOOSE x \in opt : TRUE

(***************************************************************************)
(* Lexeme tables: what the standard parsers do on the lexemes used.        *)
(***************************************************************************)
\* str::parse::<u16>() / ::<u64>() : the decimal numerals and their values.
DecimalValue ==
    ("0" :> 0) @@ ("1" :> 1) @@ ("2" :> 2) @@ ("3" :> 3) @@ ("5" :> 5) @@ ("10" :> 10) @@ ("30" :> 30) @@ ("53" :> 53) @@ ("443" :> 443)
    @@ ("0443" :> 443) @@ ("1212" :> 1212) @@ ("4443" :> 4443) @@ ("70000" :> 70000)

\* u16::to_string(): the canonical numeral of a value.
ToDecimal(n) ==
    CHOOSE t \in (DOMAIN DecimalValue) \ {"0443"} : DecimalValue[t] = n

U16Max == 65535

\* what ParseU16 must not be: a parse without the 16-bit range
ParseU16_AnyWidth(t) == IF t \in DOMAIN DecimalValue THEN Some(DecimalValue[t]) ELSE None

ParseU16(t) == IF t \in DOMAIN DecimalValue /\ DecimalValue[t] <= U16Max
               THEN Some(DecimalValue[t]) ELSE None

ParseU64(t) == IF t \in DOMAIN DecimalValue THEN Some(DecimalValue[t]) ELSE None

\* Ipv4Addr::from_str: dotted quads only.
Ipv4Lits == {"127.0.0.1", "0.0.0.0", "1.1.1.1"}

\* Lexemes starting with '[' ; Ipv6Addr::from_str on what is between the brackets.
BracketClosed == {"[::1]", "[::g]"}
BracketOpen == {"[::1"}
Ipv6Of == ("[::1]" :> "::1")

\* The url crate reads an all-digit host of a special scheme as an IPv4 number.
Ipv4OfNumber ==
    ("0" :> "0.0.0.0") @@ ("1" :> "0.0.0.1") @@ ("2" :> "0.0.0.2") @@ ("3" :> "0.0.0.3")
    @@ ("5" :> "0.0.0.5") @@ ("10" :> "0.0.0.10") @@ ("30" :> "0.0.0.30")
    @@ ("53" :> "0.0.0.53") @@ ("443" :> "0.0.1.187") @@ ("0443" :> "0.0.1.35")
    @@ ("1212" :> "0.0.4.188") @@ ("4443" :> "0.0.17.91") @@ ("70000" :> "0.1.17.112")

\* The url crate lower-cases the domain of a special scheme.
LowerCase == ("Toto.COM" :> "toto.com")
\* what Lower must not be: the domain kept as written
Lower_AsWritten(t) == t
Lower(t) == IF t \in DOMAIN LowerCase THEN LowerCase[t] ELSE t

(***************************************************************************)
(* String helpers on lexeme sequences.                                     *)
(***************************************************************************)
RECURSIVE Join(_)
Join(s) == IF s = <<>> THEN "" ELSE Head(s) \o Join(Tail(s))

\* Index of the first lexeme of s that is in seps, 0 when there is none.
IndexOf(s, seps) ==
    IF \E i \in 1..Len(s) : s[i] \in seps
    THEN CHOOSE i \in 1..Len(s) : s[i] \in seps /\ \A j \in 1..(i - 1) : s[j] \notin seps
    ELSE 0

Before(s, i) == SubSeq(s, 1, i - 1)
After(s, i) == SubSeq(s, i + 1, Len(s))

\* str::trim_start_matches(':')
RECURSIVE TrimStartColons(_)
TrimStartColons(s) ==
    IF s # <<>> /\ Head(s) = ":" THEN TrimStartColons(Tail(s)) ELSE s

Ok(v) == [ok |-> TRUE, val |-> v]
Err(kind, msg) == [ok |-> FALSE, kind |-> kind, msg |-> msg]
InvalidInput(msg) == Err("InvalidInput", msg)

V4(ip, port) == [fam |-> "V4", ip |-> ip, port |-> port]
V6(ip, port) == [fam |-> "V6", ip |-> ip, port |-> port]

(***************************************************************************)
(* config.rs, mod parsers                                                  *)
(***************************************************************************)
\* parse_duration_sec(arg) -> Result<Duration>, the duration in seconds.  The
\* text is the sequence of its numeral and, when it has one, its last
\* character: <<"5", "m">> is "5m", <<"300">> is "300".
SecondsPerUnit == ("s" :> 1) @@ ("m" :> 60) @@ ("h" :> 3600)

\* what parse_duration_sec must not be: every unit read as seconds
parse_duration_sec_UnitIgnored(a) ==
    LET suffixed == a[Len(a)] \in DOMAIN SecondsPerUnit
        secs == ParseU64(Join(IF suffixed THEN Before(a, Len(a)) ELSE a))
    IN  IF secs = None THEN InvalidInput("cannot parse duration of seconds")
        ELSE Ok(The(secs))

parse_duration_sec(a) ==
    LET suffixed == a[Len(a)] \in DOMAIN SecondsPerUnit
        multiplier == IF suffixed THEN SecondsPerUnit[a[Len(a)]] ELSE 1
        secs == ParseU64(Join(IF suffixed THEN Before(a, Len(a)) ELSE a))
    IN  IF secs = None THEN InvalidInput("cannot parse duration of seconds")
        ELSE Ok(The(secs) * multiplier)

\* parse_local_bind(arg) -> Result<(SocketAddr, &str)>
parse_local_bind(a) ==
    LET bracket == a # <<>> /\ Head(a) \in (BracketClosed \cup BracketOpen)
        colon == IndexOf(a, {":"})
        ipv4_str == IF colon = 0 THEN Join(a) ELSE Join(Before(a, colon))
        ipv4_rem == IF colon = 0 THEN <<>> ELSE After(a, colon)
        \* (bind, remaining) of the non-bracket branch
        bind4 == IF ipv4_str \in Ipv4Lits THEN ipv4_str ELSE "127.0.0.1"
        rem4 == IF ipv4_str \in Ipv4Lits THEN ipv4_rem ELSE a
        rem0 == IF bracket THEN Tail(a) ELSE rem4
        rem1 == TrimStartColons(rem0)
        cut == IndexOf(rem1, {":", "?"})
        port_str == IF cut = 0 THEN Join(rem1) ELSE Join(Before(rem1, cut))
        remaining == IF cut = 0 THEN <<>> ELSE After(rem1, cut)
        bind_port == ParseU16(port_str)
    IN  IF bracket /\ Head(a) \in BracketOpen
        THEN InvalidInput("cannot parse IPv6 bind")
        ELSE IF bracket /\ Head(a) \notin DOMAIN Ipv6Of
        THEN InvalidInput("cannot parse IPv6 bind")
        ELSE IF bind_port = None
        THEN InvalidInput("cannot parse bind port")
        ELSE Ok([local |-> IF bracket THEN V6(Ipv6Of[Head(a)], The(bind_port))
                                      ELSE V4(bind4, The(bind_port)),
                 remaining |-> remaining])

\* Url::parse of "https://" + remaining, as far as parse_tunnel_dest reads it:
\* the host, the port (None when absent, empty or the scheme's default 443)
\* and the query. url_ok is FALSE when Url::parse fails.
DefaultHttpsPort == 443

UrlHost(h) ==
    IF h \in DOMAIN Ipv6Of THEN [kind |-> "Ipv6", v |-> Ipv6Of[h]]
    ELSE IF h \in Ipv4Lits THEN [kind |-> "Ipv4", v |-> h]
    ELSE IF h \in DOMAIN Ipv4OfNumber THEN [kind |-> "Ipv4", v |-> Ipv4OfNumber[h]]
    ELSE [kind |-> "Domain", v |-> Lower(h)]

UrlParseHttps(remaining) ==
    LET q == IndexOf(remaining, {"?"})
        authority == IF q = 0 THEN remaining ELSE Before(remaining, q)
        query == IF q = 0 THEN <<>> ELSE After(remaining, q)
        n == Len(authority)
        host_ok == n >= 1 /\ authority[1] \notin {":", "=", "&"}
                   /\ authority[1] \notin BracketOpen
                   /\ (authority[1] \in BracketClosed => authority[1] \in DOMAIN Ipv6Of)
        shape_ok == n = 1 \/ (n = 2 /\ authority[2] = ":")
                    \/ (n = 3 /\ authority[2] = ":" /\ ParseU16(authority[3]) # None)
        explicit == IF n = 3 THEN ParseU16(authority[3]) ELSE None
    IN  IF ~(host_ok /\ shape_ok)
        THEN [url_ok |-> FALSE, host |-> UrlHost(""), port |-> None, query |-> <<>>]
        ELSE [url_ok |-> TRUE,
              host |-> UrlHost(authority[1]),
              port |-> IF explicit = Some(DefaultHttpsPort) THEN None ELSE explicit,
              query |-> query]

\* Url::query_pairs().collect::<BTreeMap>(): the pairs are split at '&', each at
\* its first '='; empty pairs are skipped and a later pair replaces an earlier
\* one with the same key.
RECURSIVE QueryPairs(_)
QueryPairs(query) ==
    IF query = <<>> THEN <<>>
    ELSE LET amp == IndexOf(query, {"&"})
             pair == IF amp = 0 THEN query ELSE Before(query, amp)
             rest == IF amp = 0 THEN <<>> ELSE After(query, amp)
             eq == IndexOf(pair, {"="})
             key == IF eq = 0 THEN Join(pair) ELSE Join(Before(pair, eq))
             value == IF eq = 0 THEN "" ELSE Join(After(pair, eq))
             later == QueryPairs(rest)
         IN  IF pair = <<>> THEN later ELSE later @@ (key :> value)

EndsWith443(s) ==
    Len(s) >= 2 /\ s[Len(s) - 1] = ":" /\ s[Len(s)] = "443"

Contains443Query(s) ==
    \E i \in 1..Len(s) : i + 2 <= Len(s) /\ s[i] = ":" /\ s[i + 1] = "443" /\ s[i + 2] = "?"

\* parse_tunnel_dest, once Url::parse has returned `remote`
DestOfUrl(remaining, remote) ==
    IF ~remote.url_ok THEN InvalidInput("cannot parse remote")
    ELSE IF remote.port # None
    THEN Ok([host |-> remote.host, port |-> The(remote.port),
             options |-> QueryPairs(remote.query)])
    ELSE IF EndsWith443(remaining) \/ Contains443Query(remaining)
    THEN Ok([host |-> remote.host, port |-> DefaultHttpsPort,
             options |-> QueryPairs(remote.query)])
    ELSE InvalidInput("cannot parse remote port")

\* parse_tunnel_dest(remaining) -> Result<(Host, u16, BTreeMap)>
parse_tunnel_dest(remaining) ==
    The({ DestOfUrl(remaining, remote) : remote \in {UrlParseHttps(remaining)} })


\* parse_tunnel_arg: the closures get_timeout, get_credentials, get_proxy_protocol
DefaultTimeoutSec == 30

get_timeout(options) ==
    IF "timeout_sec" \in DOMAIN options /\ ParseU64(options["timeout_sec"]) # None
    THEN LET d == The(ParseU64(options["timeout_sec"]))
         IN  IF d = 0 THEN None ELSE Some(d)
    ELSE Some(DefaultTimeoutSec)

get_credentials(options) ==
    IF "login" \in DOMAIN options /\ "password" \in DOMAIN options
    THEN Some(<<options["login"], options["password"]>>)
    ELSE None

get_proxy_protocol(options) == "proxy_protocol" \in DOMAIN options

\* tunnel::LocalProtocol, one record shape per variant
Tcp(pp) == [tag |-> "Tcp", proxy_protocol |-> pp]
Udp(t) == [tag |-> "Udp", timeout |-> t]
Stdio(pp) == [tag |-> "Stdio", proxy_protocol |-> pp]
Socks5(t, c) == [tag |-> "Socks5", timeout |-> t, credentials |-> c]
HttpProxy(t, c, pp) ==
    [tag |-> "HttpProxy", timeout |-> t, credentials |-> c, proxy_protocol |-> pp]
TProxyTcp == [tag |-> "TProxyTcp"]
TProxyUdp(t) == [tag |-> "TProxyUdp", timeout |-> t]
Unix(path, pp) == [tag |-> "Unix", path |-> path, proxy_protocol |-> pp]
ReverseTcp == [tag |-> "ReverseTcp"]
ReverseUdp(t) == [tag |-> "ReverseUdp", timeout |-> t]
ReverseSocks5(t, c) == [tag |-> "ReverseSocks5", timeout |-> t, credentials |-> c]
ReverseHttpProxy(t, c) == [tag |-> "ReverseHttpProxy", timeout |-> t, credentials |-> c]
ReverseUnix(path) == [tag |-> "ReverseUnix", path |-> path]

ForwardTags == {"Tcp", "Udp", "Stdio", "Socks5", "HttpProxy", "TProxyTcp", "TProxyUdp", "Unix"}
ReverseTags == {"ReverseTcp", "ReverseUdp", "ReverseSocks5", "ReverseHttpProxy", "ReverseUnix"}

\* struct LocalToRemote
LocalToRemote(protocol, local, host, port) ==
    [local_protocol |-> protocol, local |-> local, remote |-> <<host, port>>]

\* the prefix "0.0.0.0:0?" put before the options of the dynamic schemes
DynamicDest(remaining) == <<"0.0.0.0", ":", "0", "?">> \o remaining

\* the two calls that open the match arms of the schemes with a local bind:
\* parse_local_bind(tunnel_info)? then parse_tunnel_dest(..)?
BoundTo(b, d) ==
    IF ~d.ok THEN d
    ELSE Ok([local |-> b.val.local, host |-> d.val.host, port |-> d.val.port,
             options |-> d.val.options])

DestAfterBind(b, dynamic) ==
    IF ~b.ok THEN b
    ELSE The({ BoundTo(b, d) :
                 d \in {parse_tunnel_dest(IF dynamic THEN DynamicDest(b.val.remaining)
                                                     ELSE b.val.remaining)} })

BindAndDest(tunnel_info, dynamic) ==
    The({ DestAfterBind(b, dynamic) : b \in {parse_local_bind(tunnel_info)} })

UnspecifiedV6 == V6("::", 0)
UnspecifiedV4 == V4("0.0.0.0", 0)

\* parse_tunnel_arg: which arm of `match proto` a scheme selects ("_" is the
\* catch-all arm)
MatchProto_CatchAllIsTcp(proto) ==
    IF proto \in {"udp", "unix", "http", "socks5", "stdio", "tproxy+tcp", "tproxy+udp"}
    THEN proto ELSE "tcp"

MatchProto(proto) ==
    IF proto \in {"tcp", "udp", "unix", "http", "socks5", "stdio", "tproxy+tcp", "tproxy+udp"}
    THEN proto ELSE "_"

DynamicProtos == {"http", "socks5", "tproxy+tcp", "tproxy+udp"}

\* the arms of `match proto`: bd is what parse_local_bind and parse_tunnel_dest
\* return for the arms that call both, d what parse_tunnel_dest returns for the
\* arms (unix, stdio) that call it alone
MatchArm(proto, tunnel_info, bd, d) ==
    CASE proto = "tcp" ->
            IF ~bd.ok THEN bd
            ELSE Ok(LocalToRemote(Tcp(get_proxy_protocol(bd.val.options)),
                                  bd.val.local, bd.val.host, bd.val.port))
      [] proto = "udp" ->
            IF ~bd.ok THEN bd
            ELSE Ok(LocalToRemote(Udp(get_timeout(bd.val.options)),
                                  bd.val.local, bd.val.host, bd.val.port))
      [] proto = "unix" ->
            IF IndexOf(tunnel_info, {":"}) = 0
            THEN InvalidInput("cannot parse unix socket path")
            ELSE IF ~d.ok THEN d
            ELSE Ok(LocalToRemote(
                        Unix(Join(Before(tunnel_info, IndexOf(tunnel_info, {":"}))),
                             get_proxy_protocol(d.val.options)),
                        UnspecifiedV6, d.val.host, d.val.port))
      [] proto = "http" ->
            IF ~bd.ok THEN bd
            ELSE Ok(LocalToRemote(HttpProxy(get_timeout(bd.val.options),
                                            get_credentials(bd.val.options),
                                            get_proxy_protocol(bd.val.options)),
                                  bd.val.local, bd.val.host, bd.val.port))
      [] proto = "socks5" ->
            IF ~bd.ok THEN bd
            ELSE Ok(LocalToRemote(Socks5(get_timeout(bd.val.options),
                                         get_credentials(bd.val.options)),
                                  bd.val.local, bd.val.host, bd.val.port))
      [] proto = "stdio" ->
            IF ~d.ok THEN d
            ELSE Ok(LocalToRemote(Stdio(get_proxy_protocol(d.val.options)),
                                  UnspecifiedV4, d.val.host, d.val.port))
      [] proto = "tproxy+tcp" ->
            IF ~bd.ok THEN bd
            ELSE Ok(LocalToRemote(TProxyTcp, bd.val.local, bd.val.host, bd.val.port))
      [] proto = "tproxy+udp" ->
            IF ~bd.ok THEN bd
            ELSE Ok(LocalToRemote(TProxyUdp(get_timeout(bd.val.options)),
                                  bd.val.local, bd.val.host, bd.val.port))
      [] OTHER -> InvalidInput("Invalid local protocol for tunnel")

\* after arg.split_once("://"): the dynamic schemes parse their destination
\* from "0.0.0.0:0?" + remaining, unix from what follows the first ':'
MatchOn(proto, tunnel_info) ==
    The({ MatchArm(proto, tunnel_info, bd, d) :
            bd \in {BindAndDest(tunnel_info, proto \in DynamicProtos)},
            d \in {parse_tunnel_dest(IF proto = "unix"
                                     THEN After(tunnel_info, IndexOf(tunnel_info, {":"}))
                                     ELSE tunnel_info)} })

\* parse_tunnel_arg(arg) -> Result<LocalToRemote>
parse_tunnel_arg(a) ==
    IF IndexOf(a, {"://"}) = 0 THEN InvalidInput("cannot parse protocol")
    ELSE MatchOn(MatchProto(Join(Before(a, IndexOf(a, {"://"})))),
                 After(a, IndexOf(a, {"://"})))

\* parse_reverse_tunnel_arg: the match on proto.local_protocol
ReverseOf_StdioAsTcp(p) ==
    CASE p.tag \in {"Tcp", "Stdio"} -> Some(ReverseTcp)
      [] p.tag = "Udp" -> Some(ReverseUdp(p.timeout))
      [] p.tag = "Socks5" -> Some(ReverseSocks5(p.timeout, p.credentials))
      [] p.tag = "HttpProxy" -> Some(ReverseHttpProxy(p.timeout, p.credentials))
      [] p.tag = "Unix" -> Some(ReverseUnix(p.path))
      [] OTHER -> None

ReverseOf_DropsCredentials(p) ==
    CASE p.tag = "Tcp" -> Some(ReverseTcp)
      [] p.tag = "Udp" -> Some(ReverseUdp(p.timeout))
      [] p.tag = "Socks5" -> Some(ReverseSocks5(p.timeout, None))
      [] p.tag = "HttpProxy" -> Some(ReverseHttpProxy(p.timeout, p.credentials))
      [] p.tag = "Unix" -> Some(ReverseUnix(p.path))
      [] OTHER -> None

ReverseOf(p) ==
    CASE p.tag = "Tcp" -> Some(ReverseTcp)
      [] p.tag = "Udp" -> Some(ReverseUdp(p.timeout))
      [] p.tag = "Socks5" -> Some(ReverseSocks5(p.timeout, p.credentials))
      [] p.tag = "HttpProxy" -> Some(ReverseHttpProxy(p.timeout, p.credentials))
      [] p.tag = "Unix" -> Some(ReverseUnix(p.path))
      [] OTHER -> None

ReverseTunnel(proto) ==
    IF ~proto.ok THEN proto
    ELSE IF ReverseOf(proto.val.local_protocol) = None
    THEN InvalidInput("Cannot use as reverse tunnels")
    ELSE Ok([local_protocol |-> The(ReverseOf(proto.val.local_protocol)),
             local |-> proto.val.local,
             remote |-> proto.val.remote])

\* parse_reverse_tunnel_arg(arg) -> Result<LocalToRemote>
parse_reverse_tunnel_arg(a) ==
    The({ ReverseTunnel(proto) : proto \in {parse_tunnel_arg(a)} })

(***************************************************************************)
(* config.rs, mod serde_impls                                              *)
(***************************************************************************)
ProtocolName(p) ==
    CASE p.tag = "Tcp" -> "tcp"
      [] p.tag = "Udp" -> "udp"
      [] p.tag = "Stdio" -> "stdio"
      [] p.tag = "Socks5" -> "socks5"
      [] p.tag = "HttpProxy" -> "http"
      [] p.tag = "TProxyTcp" -> "tproxy+tcp"
      [] p.tag = "TProxyUdp" -> "tproxy+udp"
      [] p.tag = "Unix" -> "unix"
      [] p.tag = "ReverseTcp" -> "tcp"
      [] p.tag = "ReverseUdp" -> "udp"
      [] p.tag = "ReverseSocks5" -> "socks5"
      [] p.tag = "ReverseHttpProxy" -> "http"
      [] p.tag = "ReverseUnix" -> "unix"

\* SocketAddr::to_string and Host::fmt, as lexemes
SocketAddrText(sa) ==
    IF sa.fam = "V6" THEN <<"[" \o sa.ip \o "]", ":", ToDecimal(sa.port)>>
    ELSE <<sa.ip, ":", ToDecimal(sa.port)>>

HostText(h) == IF h.kind = "Ipv6" THEN "[" \o h.v \o "]" ELSE h.v

\* format_local_to_remote(l) -> String
format_local_to_remote(l) ==
    LET p == l.local_protocol
        local == IF p.tag \in {"Unix", "ReverseUnix"}
                 THEN (IF p.path = "" THEN <<>> ELSE <<p.path>>)
                 ELSE IF p.tag = "Stdio" THEN <<>>
                 ELSE SocketAddrText(l.local)
        remote == <<HostText(l.remote[1]), ":", ToDecimal(l.remote[2])>>
    IN  IF local = <<>>
        THEN <<ProtocolName(p), "://">> \o remote
        ELSE <<ProtocolName(p), "://">> \o local \o <<":">> \o remote


(***************************************************************************)
(* The Client and Server structures (config.rs) and their defaults.        *)
(* Durations are in seconds.  main.rs reads remote_addr as a Url (it calls *)
(* as_str on the field and compares with the default URL), so the field is *)
(* a URL text here and an argument left out holds the default URL.         *)
(***************************************************************************)
DEFAULT_CLIENT_UPGRADE_PATH_PREFIX == "v1"
DEFAULT_CLIENT_REMOTE_ADDR == "ws://127.0.0.1:8080"
DEFAULT_SERVER_REMOTE_ADDR == "ws://0.0.0.0:8080"

\* Url::parse(..).as_str(): a URL written without a path gets the path "/"
UrlParse(text) == text \o "/"

ClientDefault ==
    [ local_to_remote |-> <<>>,
      remote_to_local |-> <<>>,
      socket_so_mark |-> None,
      connection_min_idle |-> 0,
      connection_retry_max_backoff |-> 300,
      reverse_tunnel_connection_retry_max_backoff |-> 1,
      tls_sni_override |-> None,
      tls_sni_disable |-> FALSE,
      tls_ech_enable |-> FALSE,
      tls_verify_certificate |-> FALSE,
      http_proxy |-> None,
      http_proxy_login |-> None,
      http_proxy_password |-> None,
      http_upgrade_path_prefix |-> DEFAULT_CLIENT_UPGRADE_PATH_PREFIX,
      http_upgrade_credentials |-> None,
      websocket_ping_frequency |-> Some(30),
      websocket_mask_frame |-> FALSE,
      http_headers |-> <<>>,
      http_headers_file |-> None,
      remote_addr |-> UrlParse(DEFAULT_CLIENT_REMOTE_ADDR),
      tls_certificate |-> None,
      tls_private_key |-> None,
      dns_resolver |-> <<>>,
      dns_resolver_prefer_ipv4 |-> FALSE ]

ServerDefault ==
    [ remote_addr |-> UrlParse(DEFAULT_SERVER_REMOTE_ADDR),
      socket_so_mark |-> None,
      websocket_ping_frequency |-> Some(30),
      websocket_mask_frame |-> FALSE,
      dns_resolver |-> <<>>,
      dns_resolver_prefer_ipv4 |-> FALSE,
      restrict_to |-> None,
      restrict_http_upgrade_path_prefix |-> None,
      restrict_config |-> None,
      tls_certificate |-> None,
      tls_private_key |-> None,
      tls_client_ca_certs |-> None,
      http_proxy |-> None,
      http_proxy_login |-> None,
      http_proxy_password |-> None,
      remote_to_local_server_idle_timeout |-> 180 ]

\* a structure with the fields of `defaults`, holding `given` where it has a value
WithFields(defaults, given) ==
    [ f \in DOMAIN defaults |-> IF f \in DOMAIN given THEN given[f] ELSE defaults[f] ]

\* The structures clap builds for a subcommand given no argument: each field
\* with a default_value holds that text run through the field's value parser,
\* a flag is false, a list is empty and an Option is None.
ClientClapDefault ==
    [ local_to_remote |-> <<>>,
      remote_to_local |-> <<>>,
      socket_so_mark |-> None,
      connection_min_idle |-> DecimalValue["0"],
      connection_retry_max_backoff |-> parse_duration_sec(<<"5", "m">>).val,
      reverse_tunnel_connection_retry_max_backoff |-> parse_duration_sec(<<"1", "s">>).val,
      tls_sni_override |-> None,
      tls_sni_disable |-> FALSE,
      tls_ech_enable |-> FALSE,
      tls_verify_certificate |-> FALSE,
      http_proxy |-> None,
      http_proxy_login |-> None,
      http_proxy_password |-> None,
      http_upgrade_path_prefix |-> DEFAULT_CLIENT_UPGRADE_PATH_PREFIX,
      http_upgrade_credentials |-> None,
      websocket_ping_frequency |-> Some(parse_duration_sec(<<"30", "s">>).val),
      websocket_mask_frame |-> FALSE,
      http_headers |-> <<>>,
      http_headers_file |-> None,
      remote_addr |-> UrlParse(DEFAULT_CLIENT_REMOTE_ADDR),
      tls_certificate |-> None,
      tls_private_key |-> None,
      dns_resolver |-> <<>>,
      dns_resolver_prefer_ipv4 |-> FALSE ]

ServerClapDefault ==
    [ remote_addr |-> UrlParse(DEFAULT_SERVER_REMOTE_ADDR),
      socket_so_mark |-> None,
      websocket_ping_frequency |-> Some(parse_duration_sec(<<"30", "s">>).val),
      websocket_mask_frame |-> FALSE,
      dns_resolver |-> <<>>,
      dns_resolver_prefer_ipv4 |-> FALSE,
      restrict_to |-> None,
      restrict_http_upgrade_path_prefix |-> None,
      restrict_config |-> None,
      tls_certificate |-> None,
      tls_private_key |-> None,
      tls_client_ca_certs |-> None,
      http_proxy |-> None,
      http_proxy_login |-> None,
      http_proxy_password |-> None,
      remote_to_local_server_idle_timeout |-> parse_duration_sec(<<"3", "m">>).val ]

(***************************************************************************)
(* merge_client_config / merge_server_config (main.rs).  A field of the    *)
(* command line is taken to be unset when it holds its default value.      *)
(***************************************************************************)
ConnectionRetryMaxBackoffDefault == 300
ReverseRetryMaxBackoffDefault == 1
WebsocketPingFrequencyDefault == 30
ServerIdleTimeoutDefault == 180

\* if <cli.f is unset> { cli.f = file.f }
\* what Pick must not be: the file's value never taken
Pick_CliOnly(cli, file, f, unset) == cli[f]

\* what Pick must not be: a flag set whatever the two sides hold
Pick_SetsMaskFrame(cli, file, f, unset) ==
    IF f = "websocket_mask_frame" THEN TRUE ELSE IF unset THEN file[f] ELSE cli[f]

Pick(cli, file, f, unset) == IF unset THEN file[f] ELSE cli[f]

merge_client_config(cli, file_config) ==
    IF file_config = None THEN [config |-> cli, has_url |-> FALSE]
    ELSE LET file == The(file_config)
             default_url == DEFAULT_CLIENT_REMOTE_ADDR \o "/"
         IN  [ config |->
                 [ local_to_remote |-> Pick(cli, file, "local_to_remote", cli.local_to_remote = <<>>),
                   remote_to_local |-> Pick(cli, file, "remote_to_local", cli.remote_to_local = <<>>),
                   socket_so_mark |-> Pick(cli, file, "socket_so_mark", cli.socket_so_mark = None),
                   connection_min_idle |->
                       Pick(cli, file, "connection_min_idle", cli.connection_min_idle = 0),
                   connection_retry_max_backoff |->
                       Pick(cli, file, "connection_retry_max_backoff",
                            cli.connection_retry_max_backoff = ConnectionRetryMaxBackoffDefault),
                   reverse_tunnel_connection_retry_max_backoff |->
                       Pick(cli, file, "reverse_tunnel_connection_retry_max_backoff",
                            cli.reverse_tunnel_connection_retry_max_backoff
                                = ReverseRetryMaxBackoffDefault),
                   tls_sni_override |-> Pick(cli, file, "tls_sni_override", cli.tls_sni_override = None),
                   tls_sni_disable |-> Pick(cli, file, "tls_sni_disable", ~cli.tls_sni_disable),
                   tls_ech_enable |-> Pick(cli, file, "tls_ech_enable", ~cli.tls_ech_enable),
                   tls_verify_certificate |->
                       Pick(cli, file, "tls_verify_certificate", ~cli.tls_verify_certificate),
                   http_proxy |-> Pick(cli, file, "http_proxy", cli.http_proxy = None),
                   http_proxy_login |-> Pick(cli, file, "http_proxy_login", cli.http_proxy_login = None),
                   http_proxy_password |->
                       Pick(cli, file, "http_proxy_password", cli.http_proxy_password = None),
                   http_upgrade_path_prefix |->
                       Pick(cli, file, "http_upgrade_path_prefix",
                            cli.http_upgrade_path_prefix = DEFAULT_CLIENT_UPGRADE_PATH_PREFIX),
                   http_upgrade_credentials |->
                       Pick(cli, file, "http_upgrade_credentials", cli.http_upgrade_credentials = None),
                   websocket_ping_frequency |->
                       Pick(cli, file, "websocket_ping_frequency",
                            cli.websocket_ping_frequency = Some(WebsocketPingFrequencyDefault)),
                   websocket_mask_frame |->
                       Pick(cli, file, "websocket_mask_frame", ~cli.websocket_mask_frame),
                   http_headers |-> Pick(cli, file, "http_headers", cli.http_headers = <<>>),
                   http_headers_file |-> Pick(cli, file, "http_headers_file", cli.http_headers_file = None),
                   remote_addr |-> Pick(cli, file, "remote_addr", cli.remote_addr = default_url),
                   tls_certificate |-> Pick(cli, file, "tls_certificate", cli.tls_certificate = None),
                   tls_private_key |-> Pick(cli, file, "tls_private_key", cli.tls_private_key = None),
                   dns_resolver |-> Pick(cli, file, "dns_resolver", cli.dns_resolver = <<>>),
                   dns_resolver_prefer_ipv4 |->
                       Pick(cli, file, "dns_resolver_prefer_ipv4", ~cli.dns_resolver_prefer_ipv4) ],
               has_url |-> TRUE ]

merge_server_config(cli, file_config) ==
    IF file_config = None THEN [config |-> cli, has_url |-> FALSE]
    ELSE LET file == The(file_config)
             default_url == DEFAULT_SERVER_REMOTE_ADDR \o "/"
         IN  [ config |->
                 [ remote_addr |-> Pick(cli, file, "remote_addr", cli.remote_addr = default_url),
                   socket_so_mark |-> Pick(cli, file, "socket_so_mark", cli.socket_so_mark = None),
                   websocket_ping_frequency |->
                       Pick(cli, file, "websocket_ping_frequency",
                            cli.websocket_ping_frequency = Some(WebsocketPingFrequencyDefault)),
                   websocket_mask_frame |->
                       Pick(cli, file, "websocket_mask_frame", ~cli.websocket_mask_frame),
                   dns_resolver |-> Pick(cli, file, "dns_resolver", cli.dns_resolver = <<>>),
                   dns_resolver_prefer_ipv4 |->
                       Pick(cli, file, "dns_resolver_prefer_ipv4", ~cli.dns_resolver_prefer_ipv4),
                   restrict_to |-> Pick(cli, file, "restrict_to", cli.restrict_to = None),
                   restrict_http_upgrade_path_prefix |->
                       Pick(cli, file, "restrict_http_upgrade_path_prefix",
                            cli.restrict_http_upgrade_path_prefix = None),
                   restrict_config |-> Pick(cli, file, "restrict_config", cli.restrict_config = None),
                   tls_certificate |-> Pick(cli, file, "tls_certificate", cli.tls_certificate = None),
                   tls_private_key |-> Pick(cli, file, "tls_private_key", cli.tls_private_key = None),
                   tls_client_ca_certs |->
                       Pick(cli, file, "tls_client_ca_certs", cli.tls_client_ca_certs = None),
                   http_proxy |-> Pick(cli, file, "http_proxy", cli.http_proxy = None),
                   http_proxy_login |-> Pick(cli, file, "http_proxy_login", cli.http_proxy_login = None),
                   http_proxy_password |->
                       Pick(cli, file, "http_proxy_password", cli.http_proxy_password = None),
                   remote_to_local_server_idle_timeout |->
                       Pick(cli, file, "remote_to_local_server_idle_timeout",
                            cli.remote_to_local_server_idle_timeout = ServerIdleTimeoutDefault) ],
               has_url |-> TRUE ]


(***************************************************************************)
(* From text to Client / Server: clap on the command line, serde on the    *)
(* config file and the WSTUNNEL_ variables.  An option set is a function   *)
(* from field names to the values given; route lists are given as route    *)
(* strings and remote_addr as a URL text, the other fields as values.      *)
(***************************************************************************)
\* -L value_parser (config.rs 50) and Deserialize for LocalToRemote, per entry
ForwardRoutes(strings) == [ i \in DOMAIN strings |-> parse_tunnel_arg(strings[i]) ]

\* what ReverseRoutes must not be: the entries read by the forward parser
ReverseRoutes_ReadAsForward(strings) ==
    [ i \in DOMAIN strings |-> parse_tunnel_arg(strings[i]) ]

\* -R value_parser (config.rs 60) and deserialize_reverse_local_to_remote
ReverseRoutes(strings) == [ i \in DOMAIN strings |-> parse_reverse_tunnel_arg(strings[i]) ]

AllOk(results) == \A i \in DOMAIN results : results[i].ok
Values(results) == [ i \in DOMAIN results |-> results[i].val ]

ListOptions == {"local_to_remote", "remote_to_local"}

\* the fields whose value_parser, and whose HumanDuration deserializer, is
\* parse_duration_sec
DurationOptions ==
    {"connection_retry_max_backoff", "reverse_tunnel_connection_retry_max_backoff",
     "remote_to_local_server_idle_timeout"}

\* every option of an option set run through its parser: the results, one per
\* entry for a route list
ParseOptions(options) ==
    [ f \in DOMAIN options |->
        CASE f = "local_to_remote" -> ForwardRoutes(options[f])
          [] f = "remote_to_local" -> ReverseRoutes(options[f])
          [] f = "remote_addr" -> <<Ok(UrlParse(options[f]))>>
          [] f \in DurationOptions -> <<parse_duration_sec(options[f])>>
          [] OTHER -> <<Ok(options[f])>> ]

OptionsOk(results) == \A f \in DOMAIN results : AllOk(results[f])

\* the typed values of an option set whose options all parse
Typed(results) ==
    [ f \in DOMAIN results |->
        IF f \in ListOptions THEN Values(results[f]) ELSE results[f][1].val ]

\* clap's conflicts_with: tls_sni_disable against tls_sni_override and
\* tls_ech_enable; restrict_to and restrict_http_upgrade_path_prefix against
\* restrict_config.  Only arguments present on the command line conflict.
ClapConflict(command, options) ==
    \/ /\ command = "client"
       /\ "tls_sni_disable" \in DOMAIN options
       /\ DOMAIN options \cap {"tls_sni_override", "tls_ech_enable"} # {}
    \/ /\ command = "server"
       /\ "restrict_config" \in DOMAIN options
       /\ DOMAIN options \cap {"restrict_to", "restrict_http_upgrade_path_prefix"} # {}

DefaultsOf(role) == IF role = "client" THEN ClientDefault ELSE ServerDefault
ClapDefaultsOf(role) == IF role = "client" THEN ClientClapDefault ELSE ServerClapDefault

\* Config::try_deserialize::<WstunnelConfig>()
ParseSection(section) ==
    IF section = None THEN None ELSE Some(ParseOptions(The(section)))

SectionOk(results) == results = None \/ OptionsOk(The(results))

DeserializeSection(role, results) ==
    IF results = None THEN None
    ELSE Some(WithFields(DefaultsOf(role), Typed(The(results))))

Deserialized(input, client, server) ==
    IF input.malformed \/ ~SectionOk(client) \/ ~SectionOk(server)
    THEN Err("Config", "Failed to parse config")
    ELSE Ok([ mode |-> input.mode,
              log_lvl |-> input.log_lvl,
              no_color |-> input.no_color,
              client |-> DeserializeSection("client", client),
              server |-> DeserializeSection("server", server) ])

try_deserialize(input) ==
    The({ Deserialized(input, client, server) :
            client \in {ParseSection(input.client)}, server \in {ParseSection(input.server)} })

(***************************************************************************)
(* main (main.rs 286-476), step by step.  A step maps the state of main,   *)
(* a record of its local variables, to the state after the step.           *)
(***************************************************************************)
DefaultLogLvl == "INFO"

ArgsNotParsed ==
    [ commands |-> None, config |-> FALSE, no_color |-> None,
      nb_worker_threads |-> None, log_lvl |-> "" ]

MainStart ==
    [ args |-> ArgsNotParsed, config_file |-> None,
      client_config_has_url |-> FALSE, server_config_has_url |-> FALSE,
      log_writer |-> "", called |-> None, error |-> "", pc |-> "parse" ]

\* the process ends without an engine: clap's exit, process::exit(1), or main
\* returning the error of anyhow::bail!
Exit(s, msg) == [ s EXCEPT !.error = msg, !.pc = "exit" ]

Command(role, config) == [ role |-> role, config |-> config ]

\* let mut args = Wstunnel::parse();
Parsed(a, s, results) ==
    IF ClapConflict(a.command, a.options)
    THEN Exit(s, "error: the argument cannot be used with")
    ELSE IF ~OptionsOk(results)
    THEN Exit(s, "error: invalid value")
    ELSE [ s EXCEPT
             !.args =
                 [ commands |->
                       IF a.command = "none" THEN None
                       ELSE Some(Command(a.command,
                                         WithFields(ClapDefaultsOf(a.command), Typed(results)))),
                   config |-> a.config,
                   no_color |-> a.no_color,
                   nb_worker_threads |-> a.nb_worker_threads,
                   log_lvl |-> IF a.log_lvl = None THEN DefaultLogLvl ELSE The(a.log_lvl) ],
             !.pc = "load" ]

WstunnelParse(a, s) == The({ Parsed(a, s, results) : results \in {ParseOptions(a.options)} })

\* let config_file = if let Some(config_path) = &args.config { .. } else { .. };
Loaded(s, r) ==
    IF s.args.config
    THEN IF r.ok
         THEN [ s EXCEPT !.config_file = Some(r.val), !.pc = "merge_global" ]
         ELSE Exit(s, "Error: Failed to load config file")
    ELSE [ s EXCEPT
             !.config_file =
                 IF r.ok /\ (r.val.client # None \/ r.val.server # None \/ r.val.mode # None)
                 THEN Some(r.val) ELSE None,
             !.pc = "merge_global" ]

LoadConfig(input, s) == The({ Loaded(s, r) : r \in {try_deserialize(input)} })

\* Merge global options from config file
MergeGlobalOptions(s) ==
    IF s.config_file = None THEN [ s EXCEPT !.pc = "select_mode" ]
    ELSE LET config == The(s.config_file)
         IN  [ s EXCEPT
                 !.args.log_lvl =
                     IF @ = "INFO" /\ config.log_lvl # None THEN The(config.log_lvl) ELSE @,
                 !.args.no_color =
                     IF @ = None /\ config.no_color = Some(TRUE) THEN Some("1") ELSE @,
                 !.pc = "select_mode" ]

\* if args.commands.is_none() { if let Some(ref config) = config_file { .. } }
ModeApplies(s) == s.args.commands = None /\ s.config_file # None

\* mode None: the role inferred from the sections that are present
\* what InferredRole must not be: the client preferred when both are present
InferredRole_BothIsClient(config) ==
    IF config.client # None THEN "client"
    ELSE IF config.server # None THEN "server"
    ELSE "neither"

InferredRole(config) ==
    IF config.client # None /\ config.server = None THEN "client"
    ELSE IF config.server # None /\ config.client = None THEN "server"
    ELSE IF config.client # None /\ config.server # None THEN "both"
    ELSE "neither"

\* If no subcommand is provided, try to determine mode from config file
SelectMode(s) ==
    IF ~ModeApplies(s) THEN [ s EXCEPT !.pc = "merge" ]
    ELSE LET config == The(s.config_file)
             Run(role, section) ==
                 [ s EXCEPT !.args.commands = Some(Command(role, The(section))),
                            !.pc = "merge" ]
         IN  CASE config.mode = Some("client") ->
                    IF config.client # None THEN Run("client", config.client)
                    ELSE Exit(s, "Config file specifies mode='client' but no client configuration found")
               [] config.mode = Some("server") ->
                    IF config.server # None THEN Run("server", config.server)
                    ELSE Exit(s, "Config file specifies mode='server' but no server configuration found")
               [] config.mode # None /\ config.mode \notin {Some("client"), Some("server")} ->
                    Exit(s, "Invalid mode in config file. Must be 'client' or 'server'")
               [] OTHER ->
                    CASE InferredRole(config) = "client" -> Run("client", config.client)
                      [] InferredRole(config) = "server" -> Run("server", config.server)
                      [] InferredRole(config) = "both" ->
                            Exit(s, "Config file contains both client and server sections")
                      [] OTHER ->
                            Exit(s, "Config file does not contain client or server configuration")

\* Merge config file with CLI args if both are present
MergeConfig(s) ==
    IF s.config_file = None \/ s.args.commands = None THEN [ s EXCEPT !.pc = "validate" ]
    ELSE LET config == The(s.config_file)
             commands == The(s.args.commands)
         IN  IF commands.role = "client"
             THEN LET m == merge_client_config(commands.config, config.client)
                  IN  [ s EXCEPT !.args.commands = Some(Command("client", m.config)),
                                 !.client_config_has_url = m.has_url,
                                 !.pc = "validate" ]
             ELSE LET m == merge_server_config(commands.config, config.server)
                  IN  [ s EXCEPT !.args.commands = Some(Command("server", m.config)),
                                 !.server_config_has_url = m.has_url,
                                 !.pc = "validate" ]

\* let Some(commands) = args.commands else { bail }, then the remote_addr check
ValidateCommand(s) ==
    IF s.args.commands = None THEN Exit(s, "No command specified")
    ELSE LET commands == The(s.args.commands)
         IN  IF /\ commands.role = "client"
                /\ commands.config.remote_addr = DEFAULT_CLIENT_REMOTE_ADDR \o "/"
                /\ ~s.client_config_has_url
             THEN Exit(s, "Server URL not specified")
             ELSE IF /\ commands.role = "server"
                     /\ commands.config.remote_addr = DEFAULT_SERVER_REMOTE_ADDR \o "/"
                     /\ ~s.server_config_has_url
             THEN Exit(s, "Server bind address not specified")
             ELSE [ s EXCEPT !.pc = "logging" ]

StdioCount(tunnels) ==
    Cardinality({ i \in DOMAIN tunnels : tunnels[i].local_protocol.tag = "Stdio" })

\* Setup logging: a stdio tunnel captures stdout, so the log goes to stderr
SetupLogging(s) ==
    LET commands == The(s.args.commands)
    IN  [ s EXCEPT
            !.log_writer =
                IF commands.role = "client" /\ StdioCount(commands.config.local_to_remote) > 0
                THEN "stderr" ELSE "stdout",
            !.pc = "dispatch" ]

\* what RunEngine must not do: put the worker-thread count into the configuration
RunEngine_ReadsWorkerThreads(s) ==
    LET commands == The(s.args.commands)
    IN  [ s EXCEPT
            !.called =
                Some([ entry |-> IF commands.role = "client" THEN "run_client" ELSE "run_server",
                       config |-> [ commands.config EXCEPT
                                      !.socket_so_mark = s.args.nb_worker_threads ] ]),
            !.pc = "running" ]

\* match commands { Client(args) => run_client(..), Server(args) => run_server(..) }
RunEngine(s) ==
    LET commands == The(s.args.commands)
    IN  [ s EXCEPT
            !.called =
                Some([ entry |-> IF commands.role = "client" THEN "run_client" ELSE "run_server",
                       config |-> commands.config ]),
            !.pc = "running" ]

Ended == {"exit", "running"}

\* the step main takes next
StepOf(a, input, s) ==
    CASE s.pc = "parse" -> WstunnelParse(a, s)
      [] s.pc = "load" -> LoadConfig(input, s)
      [] s.pc = "merge_global" -> MergeGlobalOptions(s)
      [] s.pc = "select_mode" -> SelectMode(s)
      [] s.pc = "merge" -> MergeConfig(s)
      [] s.pc = "validate" -> ValidateCommand(s)
      [] s.pc = "logging" -> SetupLogging(s)
      [] s.pc = "dispatch" -> RunEngine(s)
      [] OTHER -> s

\* main run from state s to its end
RECURSIVE RunMain(_, _, _)
RunMain(a, input, s) ==
    IF s.pc \in Ended THEN s ELSE RunMain(a, input, StepOf(a, input, s))


(***************************************************************************)
(* Route strings the parsers are applied to.  A route is                   *)
(*   scheme "://" tunnel_info [ "?" options ]                              *)
(* with tunnel_info one of  local ":" dest,  local,  dest  (and, for unix, *)
(* path ":" dest), local being [bind ":"] port and dest being host ":"     *)
(* port.  Malformed pieces are part of the inputs.                         *)
(***************************************************************************)
Schemes == {"tcp", "udp", "socks5", "http", "stdio", "unix", "tproxy+tcp", "tproxy+udp"}
OtherSchemes == {"sdsf"}

Locals ==
    { <<"1212">>, <<"0.0.0.0", ":", "1212">>, <<"[::1]", ":", "443">>,
      <<"domain.com", ":", "443">>, <<"70000">>, <<"127.0.0.1">> }

UnixPaths == { <<"/tmp/wstunnel.sock">>, <<>> }

Dests ==
    { <<"google.com", ":", "443">>, <<"1.1.1.1", ":", "53">>, <<"[::1]", ":", "4443">>,
      <<"Toto.COM", ":", "4443">>, <<"google.com", ":", "0443">>, <<"google.com">> }

TimeoutOpts ==
    { <<>>, <<"timeout_sec", "=", "0">>, <<"timeout_sec", "=", "10">>,
      <<"timeout_sec", "=", "abc">> }
LoginOpts == { <<>>, <<"login", "=", "admin">> }
PasswordOpts == { <<>>, <<"password", "=", "pw">> }
ProxyProtocolOpts ==
    { <<>>, <<"proxy_protocol">>, <<"proxy_protocol", "=">>, <<"proxy_protocol", "=", "false">>,
      <<"proxy_protocol", "=", "0">> }

\* the non-empty pairs, joined by '&'
RECURSIVE JoinPairs(_)
JoinPairs(pairs) ==
    IF pairs = <<>> THEN <<>>
    ELSE IF Head(pairs) = <<>> THEN JoinPairs(Tail(pairs))
    ELSE IF JoinPairs(Tail(pairs)) = <<>> THEN Head(pairs)
    ELSE Head(pairs) \o <<"&">> \o JoinPairs(Tail(pairs))

Queries ==
    { IF JoinPairs(<<t, l, p, f>>) = <<>> THEN <<>> ELSE <<"?">> \o JoinPairs(<<t, l, p, f>>) :
        t \in TimeoutOpts, l \in LoginOpts, p \in PasswordOpts, f \in ProxyProtocolOpts }

TunnelInfos ==
    { l \o <<":">> \o d : l \in Locals, d \in Dests } \cup Locals \cup Dests

UnixInfos == { p \o <<":">> \o d : p \in UnixPaths, d \in Dests }

RouteStrings ==
    { <<sch, "://">> \o ti \o q : sch \in Schemes \cup OtherSchemes, ti \in TunnelInfos, q \in Queries }
    \cup { <<"unix", "://">> \o ti \o q : ti \in UnixInfos, q \in Queries }
    \cup { ti \o q : ti \in {<<"domain.com", ":", "443">>, <<"1212", ":", "google.com", ":", "443">>},
                     q \in Queries }

NotRun == [ok |-> FALSE, kind |-> "NotRun", msg |-> ""]

(***************************************************************************)
(* The runs of main: a command line and a configuration input.  Both are   *)
(* built from at most MaxSettings settings, a setting being one thing      *)
(* given in one place, <<place, option, value>>: an argument of the        *)
(* subcommand ("cli"), a global argument ("argv"), an option of the client *)
(* or server section of the configuration input ("client", "server"; the   *)
(* option "section" is the section itself, for a section that is present   *)
(* and empty) or one of its top-level keys ("file").  Each entry of a      *)
(* route list is a setting of its own.  The configuration input is the     *)
(* config file overlaid with the WSTUNNEL_ variables when --config is      *)
(* given, and the WSTUNNEL_ variables alone when it is not.                *)
(***************************************************************************)
MaxSettings == 2

RouteChoices ==
    { <<"tcp", "://", "1212", ":", "google.com", ":", "443", "?", "proxy_protocol">>,
      <<"socks5", "://", "[::1]", ":", "1212", "?", "timeout_sec", "=", "10">>,
      <<"stdio", "://", "google.com", ":", "443">>,
      <<"stdio", "://", "1.1.1.1", ":", "53">>,
      <<"1212", ":", "google.com", ":", "443">> }

ClientCliChoices ==
    { <<"cli", o, r>> : o \in ListOptions, r \in RouteChoices }
    \cup { <<"cli", "connection_min_idle", 0>>, <<"cli", "connection_min_idle", 5>>,
           <<"cli", "connection_retry_max_backoff", <<"5", "m">>>>,
           <<"cli", "connection_retry_max_backoff", <<"1", "m">>>>,
           <<"cli", "tls_sni_override", Some("cli.example")>>,
           <<"cli", "tls_sni_disable", TRUE>>,
           <<"cli", "tls_ech_enable", TRUE>>,
           <<"cli", "remote_addr", "ws://127.0.0.1:8080">>,
           <<"cli", "remote_addr", "wss://cli.example">> }

ClientFileChoices ==
    { <<"client", o, r>> : o \in ListOptions, r \in RouteChoices }
    \cup { <<"client", "connection_min_idle", 7>>,
           <<"client", "connection_retry_max_backoff", <<"2", "m">>>>,
           <<"client", "tls_sni_override", Some("file.example")>>,
           <<"client", "tls_sni_disable", TRUE>>,
           <<"client", "tls_ech_enable", TRUE>>,
           <<"client", "remote_addr", "wss://file.example">>,
           <<"client", "section", TRUE>> }

ServerCliChoices ==
    { <<"cli", "remote_addr", "ws://0.0.0.0:8080">>,
      <<"cli", "remote_addr", "wss://[::]:443">>,
      <<"cli", "restrict_to", Some(<<"google.com:443">>)>>,
      <<"cli", "restrict_http_upgrade_path_prefix", Some(<<"cli-secret">>)>>,
      <<"cli", "restrict_config", Some("cli-rules.yaml")>>,
      <<"cli", "remote_to_local_server_idle_timeout", <<"3", "m">>>>,
      <<"cli", "remote_to_local_server_idle_timeout", <<"1", "m">>>>,
      <<"cli", "websocket_mask_frame", TRUE>> }

ServerFileChoices ==
    { <<"server", "remote_addr", "wss://0.0.0.0:8443">>,
      <<"server", "restrict_to", Some(<<"file.example:22">>)>>,
      <<"server", "restrict_http_upgrade_path_prefix", Some(<<"file-secret">>)>>,
      <<"server", "restrict_config", Some("file-rules.yaml")>>,
      <<"server", "remote_to_local_server_idle_timeout", <<"30", "s">>>>,
      <<"server", "section", TRUE>> }

GlobalCliChoices ==
    { <<"argv", "log_lvl", "INFO">>, <<"argv", "log_lvl", "DEBUG">>,
      <<"argv", "no_color", "1">>,
      <<"argv", "nb_worker_threads", 1>>, <<"argv", "nb_worker_threads", 4>> }

GlobalFileChoices ==
    { <<"file", "log_lvl", "WARN">>, <<"file", "no_color", TRUE>>,
      <<"file", "no_color", FALSE>>, <<"file", "malformed", TRUE>>,
      <<"file", "mode", "client">>, <<"file", "mode", "server">>,
      <<"file", "mode", "proxy">> }

\* the settings a run can draw from, given its subcommand
Choices(command) ==
    GlobalCliChoices \cup GlobalFileChoices \cup ClientFileChoices \cup ServerFileChoices
    \cup (IF command = "client" THEN ClientCliChoices ELSE {})
    \cup (IF command = "server" THEN ServerCliChoices ELSE {})

\* the sets of at most k settings
RECURSIVE Picks(_, _)
Picks(choices, k) ==
    IF k = 0 THEN {{}}
    ELSE LET fewer == Picks(choices, k - 1)
         IN  fewer \cup { p \cup {c} : p \in fewer, c \in choices }

\* an option other than a list is given at most one value in one place
Consistent(p) ==
    \A i, j \in p : (i[1] = j[1] /\ i[2] = j[2] /\ i[2] \notin ListOptions) => i = j

RECURSIVE SeqOf(_)
SeqOf(S) ==
    IF S = {} THEN <<>> ELSE LET x == CHOOSE y \in S : TRUE IN <<x>> \o SeqOf(S \ {x})

Given(p, place, option) == { i[3] : i \in { j \in p : j[1] = place /\ j[2] = option } }

OptionsOf(p, place) ==
    [ o \in { i[2] : i \in { j \in p : j[1] = place } } \ {"section"} |->
        IF o \in ListOptions THEN SeqOf(Given(p, place, o)) ELSE The(Given(p, place, o)) ]

SectionOf(p, place) ==
    IF \E i \in p : i[1] = place THEN Some(OptionsOf(p, place)) ELSE None

ArgvOf(command, config, p) ==
    [ command |-> command,
      options |-> OptionsOf(p, "cli"),
      config |-> config,
      no_color |-> Given(p, "argv", "no_color"),
      nb_worker_threads |-> Given(p, "argv", "nb_worker_threads"),
      log_lvl |-> Given(p, "argv", "log_lvl") ]

ConfigInputOf(p) ==
    [ malformed |-> Given(p, "file", "malformed") # {},
      mode |-> Given(p, "file", "mode"),
      log_lvl |-> Given(p, "file", "log_lvl"),
      no_color |-> Given(p, "file", "no_color"),
      client |-> SectionOf(p, "client"),
      server |-> SectionOf(p, "server") ]

\* the settings of one run
SettingsOf(command) == { p \in Picks(Choices(command), MaxSettings) : Consistent(p) }

NoArgv == ArgvOf("none", FALSE, {})
NoConfigInput == ConfigInputOf({})

MainState ==
    [ args |-> args, config_file |-> config_file,
      client_config_has_url |-> client_config_has_url,
      server_config_has_url |-> server_config_has_url,
      log_writer |-> log_writer, called |-> called, error |-> error, pc |-> pc ]

\* the variables of main take the values of the record s
MainIs(s) ==
    /\ args = s.args
    /\ config_file = s.config_file
    /\ client_config_has_url = s.client_config_has_url
    /\ server_config_has_url = s.server_config_has_url
    /\ log_writer = s.log_writer
    /\ called = s.called
    /\ error = s.error
    /\ pc = s.pc

MainBecomes(s) ==
    /\ args' = s.args
    /\ config_file' = s.config_file
    /\ client_config_has_url' = s.client_config_has_url
    /\ server_config_has_url' = s.server_config_has_url
    /\ log_writer' = s.log_writer
    /\ called' = s.called
    /\ error' = s.error
    /\ pc' = s.pc
    /\ UNCHANGED <<argv, config_input, routeVars>>

(***************************************************************************)
(* The route run: one route string taken through the parsers and the       *)
(* serializer.  main does not run.                                         *)
(***************************************************************************)
InitRoute ==
    /\ arg \in RouteStrings
    /\ parsed = NotRun
    /\ reversed = NotRun
    /\ formatted = <<>>
    /\ reparsed = NotRun
    /\ rpc = "start"
    /\ argv = NoArgv
    /\ config_input = NoConfigInput
    /\ MainIs([MainStart EXCEPT !.pc = "idle"])

\* clap's value_parser for -L, and Deserialize for LocalToRemote
ParseTunnelArg ==
    /\ rpc = "start"
    /\ parsed' = parse_tunnel_arg(arg)
    /\ rpc' = "parsed"
    /\ UNCHANGED <<arg, reversed, formatted, reparsed, mainVars>>

\* clap's value_parser for -R, and deserialize_reverse_local_to_remote
ParseReverseTunnelArg ==
    /\ rpc = "parsed"
    /\ reversed' = parse_reverse_tunnel_arg(arg)
    /\ rpc' = "reversed"
    /\ UNCHANGED <<arg, parsed, formatted, reparsed, mainVars>>

\* impl Serialize for LocalToRemote
Serialize ==
    /\ rpc = "reversed"
    /\ parsed.ok
    /\ formatted' = format_local_to_remote(parsed.val)
    /\ rpc' = "formatted"
    /\ UNCHANGED <<arg, parsed, reversed, reparsed, mainVars>>

\* impl Deserialize for LocalToRemote, on what Serialize wrote
Deserialize ==
    /\ rpc = "formatted"
    /\ reparsed' = parse_tunnel_arg(formatted)
    /\ rpc' = "done"
    /\ UNCHANGED <<arg, parsed, reversed, formatted, mainVars>>

NextRoute == ParseTunnelArg \/ ParseReverseTunnelArg \/ Serialize \/ Deserialize

SpecRoute == InitRoute /\ [][NextRoute]_vars

(***************************************************************************)
(* The piece run: parse_local_bind or parse_tunnel_dest applied to one     *)
(* piece of a route, as the tests test_parse_local_bind and                *)
(* test_parse_tunnel_dest apply them.  The result is held in `parsed`.     *)
(***************************************************************************)
MorePieces ==
    { <<"127.0.0.1", ":", "70000">>, <<"[::g]", ":", "443">>, <<"[::1", ":", "443">>,
      <<"google.com", ":">>, <<"google.com", ":", "70000">>,
      <<"google.com", "?", "login", "=", "admin", ":", "443">> }

PieceStrings == { ti \o q : ti \in TunnelInfos, q \in Queries } \cup MorePieces

InitPieces ==
    /\ arg \in PieceStrings
    /\ parsed = NotRun
    /\ reversed = NotRun
    /\ formatted = <<>>
    /\ reparsed = NotRun
    /\ rpc = "piece"
    /\ argv = NoArgv
    /\ config_input = NoConfigInput
    /\ MainIs([MainStart EXCEPT !.pc = "idle"])

ParseLocalBind ==
    /\ rpc = "piece"
    /\ parsed' = parse_local_bind(arg)
    /\ rpc' = "bind"
    /\ UNCHANGED <<arg, reversed, formatted, reparsed, mainVars>>

ParseTunnelDest ==
    /\ rpc = "piece"
    /\ parsed' = parse_tunnel_dest(arg)
    /\ rpc' = "dest"
    /\ UNCHANGED <<arg, reversed, formatted, reparsed, mainVars>>

NextPieces == ParseLocalBind \/ ParseTunnelDest

SpecPieces == InitPieces /\ [][NextPieces]_vars

(***************************************************************************)
(* The run of main: one process, from the command line to the engine.      *)
(***************************************************************************)
Init ==
    /\ \E command \in {"none", "client", "server"}, config \in BOOLEAN :
            \E p \in SettingsOf(command) :
                /\ argv = ArgvOf(command, config, p)
                /\ config_input = ConfigInputOf(p)
    /\ MainIs(MainStart)
    /\ arg = <<>>
    /\ parsed = NotRun
    /\ reversed = NotRun
    /\ formatted = <<>>
    /\ reparsed = NotRun
    /\ rpc = "idle"

ParseArguments == pc = "parse" /\ \E s \in {WstunnelParse(argv, MainState)} : MainBecomes(s)
LoadConfiguration == pc = "load" /\ \E s \in {LoadConfig(config_input, MainState)} : MainBecomes(s)
MergeGlobal == pc = "merge_global" /\ \E s \in {MergeGlobalOptions(MainState)} : MainBecomes(s)
ChooseCommand == pc = "select_mode" /\ \E s \in {SelectMode(MainState)} : MainBecomes(s)
MergeSections == pc = "merge" /\ \E s \in {MergeConfig(MainState)} : MainBecomes(s)
Validate == pc = "validate" /\ \E s \in {ValidateCommand(MainState)} : MainBecomes(s)
InitLogging == pc = "logging" /\ \E s \in {SetupLogging(MainState)} : MainBecomes(s)
Dispatch == pc = "dispatch" /\ \E s \in {RunEngine(MainState)} : MainBecomes(s)

Next ==
    \/ ParseArguments
    \/ LoadConfiguration
    \/ MergeGlobal
    \/ ChooseCommand
    \/ MergeSections
    \/ Validate
    \/ InitLogging
    \/ Dispatch

Spec == Init /\ [][Next]_vars


(***************************************************************************)
(* Properties of the route parsers (checked under SpecRoute).              *)
(***************************************************************************)
\* What a route string says, read off the string itself.
HasScheme(a) == Len(a) >= 2 /\ a[2] = "://"
SchemeOf(a) == IF HasScheme(a) THEN a[1] ELSE ""

\* the options written in the route: the keys that follow '?' or '&'
WrittenKeys(a) == { a[i] : i \in { j \in 2..Len(a) : a[j - 1] \in {"?", "&"} } }
WrittenValue(a, key) ==
    LET i == CHOOSE j \in 2..Len(a) : a[j - 1] \in {"?", "&"} /\ a[j] = key
    IN  IF i + 2 <= Len(a) /\ a[i + 1] = "=" THEN a[i + 2] ELSE ""

\* well-formed pieces
ValidLocals == { <<"1212">>, <<"0.0.0.0", ":", "1212">>, <<"[::1]", ":", "443">> }
ValidDests ==
    { <<"google.com", ":", "443">>, <<"1.1.1.1", ":", "53">>, <<"[::1]", ":", "4443">>,
      <<"Toto.COM", ":", "4443">> }
ValidQueries ==
    { q \in Queries :
        /\ ("timeout_sec" \in WrittenKeys(q) => WrittenValue(q, "timeout_sec") # "abc")
        /\ ("login" \in WrittenKeys(q) <=> "password" \in WrittenKeys(q)) }

\* the grammar of spec section 6: scheme://[bind:]port:host:port[?opt=val&...]
SpecGrammarRoutes ==
    { <<sch, "://">> \o l \o <<":">> \o d \o q :
        sch \in Schemes, l \in ValidLocals, d \in ValidDests, q \in ValidQueries }

\* the shapes of the examples in the documentation of Client::local_to_remote
DocRoutes ==
    { <<sch, "://">> \o l \o <<":">> \o d \o q :
        sch \in {"tcp", "udp"}, l \in ValidLocals, d \in ValidDests, q \in ValidQueries }
    \cup { <<sch, "://">> \o l \o q :
        sch \in {"socks5", "http", "tproxy+tcp", "tproxy+udp"}, l \in ValidLocals,
        q \in ValidQueries }
    \cup { <<"stdio", "://">> \o d \o q : d \in ValidDests, q \in ValidQueries }
    \cup { <<"unix", "://", "/tmp/wstunnel.sock", ":">> \o d \o q :
        d \in ValidDests, q \in ValidQueries }

ParseDone == rpc # "start"
ReverseDone == rpc \in {"reversed", "formatted", "done"}

\* C1: for every valid route string of the grammar (all eight schemes, with or
\* without options), parse, then format, then parse again yields a
\* LocalToRemote equal to the first one, protocol options included.
C1_RoundTrip ==
    (rpc = "done" /\ arg \in SpecGrammarRoutes \cup DocRoutes) => reparsed = parsed

\* the Reverse* variant that corresponds to a forward variant
CorrespondingReverse ==
    ("Tcp" :> "ReverseTcp") @@ ("Udp" :> "ReverseUdp") @@ ("Socks5" :> "ReverseSocks5")
    @@ ("HttpProxy" :> "ReverseHttpProxy") @@ ("Unix" :> "ReverseUnix")

HoldsOption(p, o) ==
    /\ o \in DOMAIN p
    /\ (o = "proxy_protocol" => p[o])
    /\ (o = "credentials" => p[o] # None)
LostOptions(f, r) ==
    { o \in {"timeout", "credentials", "proxy_protocol"} :
        HoldsOption(f, o) /\ (o \notin DOMAIN r \/ r[o] # f[o]) }

\* C3 as stated: the reverse conversion carries timeout and credentials over
\* unchanged and the only option it loses is the proxy-protocol flag, lost
\* only for HttpProxy -> ReverseHttpProxy.
C3_OnlyHttpLosesFlag ==
    (ReverseDone /\ reversed.ok /\ arg \in DocRoutes) =>
        LostOptions(parsed.val.local_protocol, reversed.val.local_protocol)
            \subseteq (IF parsed.val.local_protocol.tag = "HttpProxy"
                       THEN {"proxy_protocol"} ELSE {})

\* C3 amended: the reverse conversion carries timeout and credentials over
\* unchanged; the proxy-protocol flag is the only option lost, and it is lost
\* for every forward variant that holds one and has a reverse counterpart:
\* Tcp, HttpProxy and Unix.
C3_FlagLostWhereverHeld ==
    (ReverseDone /\ reversed.ok) =>
        LET f == parsed.val.local_protocol
            r == reversed.val.local_protocol
        IN  /\ LostOptions(f, r) \subseteq {"proxy_protocol"}
            /\ ("timeout" \in DOMAIN f => ("timeout" \in DOMAIN r /\ r.timeout = f.timeout))
            /\ ("credentials" \in DOMAIN f =>
                    ("credentials" \in DOMAIN r /\ r.credentials = f.credentials))
            /\ ("proxy_protocol" \in LostOptions(f, r)
                    <=> (f.tag \in {"Tcp", "HttpProxy", "Unix"} /\ f.proxy_protocol))

C3_Witness ==
    /\ ReverseDone /\ reversed.ok
    /\ parsed.val.local_protocol.tag = "Tcp"
    /\ parsed.val.local_protocol.proxy_protocol
    /\ reversed.val.local_protocol = ReverseTcp

\* C5: for the schemes udp, socks5, http and tproxy+udp, timeout_sec=0 gives a
\* disabled timeout (None), timeout_sec=n with n>0 gives exactly n seconds and
\* an absent timeout_sec gives the default of 30 seconds.
C5_TimeoutOption ==
    (ParseDone /\ parsed.ok /\ SchemeOf(arg) \in {"udp", "socks5", "http", "tproxy+udp"}
       /\ arg \in SpecGrammarRoutes \cup DocRoutes) =>
        LET t == parsed.val.local_protocol.timeout
        IN  IF "timeout_sec" \notin WrittenKeys(arg) THEN t = Some(30)
            ELSE IF WrittenValue(arg, "timeout_sec") = "0" THEN t = None
            ELSE t = Some(DecimalValue[WrittenValue(arg, "timeout_sec")])

\* C10: parse_tunnel_arg accepts exactly the schemes tcp, udp, socks5, http,
\* stdio, unix, tproxy+tcp and tproxy+udp: a route of one of them in its
\* documented shape is parsed, and a string with no "://" or with any other
\* scheme yields an InvalidInput error and no LocalToRemote.
C10_Schemes ==
    ParseDone =>
        /\ (arg \in DocRoutes => parsed.ok)
        /\ (parsed.ok => SchemeOf(arg) \in Schemes)
        /\ ((~HasScheme(arg) \/ SchemeOf(arg) \notin Schemes) =>
                (~parsed.ok /\ parsed.kind = "InvalidInput"
                 /\ parsed.msg \in {"cannot parse protocol",
                                    "Invalid local protocol for tunnel"}))

C10_Witness ==
    /\ ParseDone /\ SchemeOf(arg) = "sdsf"
    /\ parsed = InvalidInput("Invalid local protocol for tunnel")

\* What the pieces of a route say, read off the text: the local address of
\* [bind:]port (127.0.0.1 when the bind is left out) and the host of host:port,
\* its kind being the kind of the literal.
WrittenLocal(l) ==
    IF Len(l) = 1 THEN V4("127.0.0.1", DecimalValue[l[1]])
    ELSE IF l[1] \in Ipv4Lits THEN V4(l[1], DecimalValue[l[3]])
    ELSE V6(Ipv6Of[l[1]], DecimalValue[l[3]])

WrittenHost(h) ==
    IF h \in DOMAIN Ipv6Of THEN [kind |-> "Ipv6", v |-> Ipv6Of[h]]
    ELSE IF h \in Ipv4Lits THEN [kind |-> "Ipv4", v |-> h]
    ELSE [kind |-> "Domain", v |-> h]

\* the written host as a URL holds it: a domain name in lower case
NormalisedHost(h) == [ WrittenHost(h) EXCEPT !.v = IF @ = "Toto.COM" THEN "toto.com" ELSE @ ]

\* C11 as stated: for tcp and udp routes [bind:]port:host:port,
\* parse_tunnel_arg returns local = bind:port and remote = (host, port)
\* exactly as written, for IPv4, bracketed IPv6 and domain hosts, the local
\* address being 127.0.0.1 with the given port when the bind is omitted.
C11_AsWritten ==
    ParseDone =>
        \A sch \in {"tcp", "udp"}, l \in ValidLocals, d \in ValidDests, q \in ValidQueries :
            arg = <<sch, "://">> \o l \o <<":">> \o d \o q =>
                /\ parsed.ok
                /\ parsed.val.local = WrittenLocal(l)
                /\ parsed.val.remote = <<WrittenHost(d[1]), DecimalValue[d[3]]>>

\* C11 amended: for tcp and udp routes [bind:]port:host:port,
\* parse_tunnel_arg returns local = bind:port (127.0.0.1 with the given port
\* when the bind is omitted) and remote = (host, port) with an IPv4 or
\* bracketed IPv6 host and the port as written and a domain host in lower
\* case: the written host as the URL parser normalises it.
C11_HostNormalised ==
    ParseDone =>
        \A sch \in {"tcp", "udp"}, l \in ValidLocals, d \in ValidDests, q \in ValidQueries :
            arg = <<sch, "://">> \o l \o <<":">> \o d \o q =>
                /\ parsed.ok
                /\ parsed.val.local = WrittenLocal(l)
                /\ parsed.val.remote = <<NormalisedHost(d[1]), DecimalValue[d[3]]>>

\* a udp route without bind to a domain written in mixed case
C11_Witness ==
    /\ ParseDone /\ parsed.ok
    /\ arg = <<"udp", "://", "1212", ":", "Toto.COM", ":", "4443">>
    /\ parsed.val.local = V4("127.0.0.1", 1212)
    /\ parsed.val.remote = <<[kind |-> "Domain", v |-> "toto.com"], 4443>>

\* the queries whose timeout_sec, when written, is a numeral; login and
\* password may be written one without the other
OptionQueries ==
    { q \in Queries :
        "timeout_sec" \in WrittenKeys(q) => WrittenValue(q, "timeout_sec") # "abc" }

\* the socks5 and http routes: the grammar's scheme://[bind:]port:host:port
\* and the documented scheme://[bind:]port, each with any options
CredentialRoutes ==
    { <<sch, "://">> \o l \o <<":">> \o d \o q :
        sch \in {"socks5", "http"}, l \in ValidLocals, d \in ValidDests, q \in OptionQueries }
    \cup { <<sch, "://">> \o l \o q :
        sch \in {"socks5", "http"}, l \in ValidLocals, q \in OptionQueries }

\* C21: for socks5 and http routes, parse_tunnel_arg sets credentials to
\* Some((login, password)) if and only if both the login and the password
\* options are present in the route; with only one of the two present,
\* credentials is None and the route is accepted without error.
C21_Credentials ==
    (ParseDone /\ arg \in CredentialRoutes) =>
        /\ parsed.ok
        /\ parsed.val.local_protocol.credentials =
                IF {"login", "password"} \subseteq WrittenKeys(arg)
                THEN Some(<<WrittenValue(arg, "login"), WrittenValue(arg, "password")>>)
                ELSE None

\* C22: proxy_protocol is a presence flag: for tcp, unix, http and stdio
\* routes the parsed proxy_protocol field is true if and only if the key
\* proxy_protocol appears among the route's options, whatever value is
\* attached to it (absent, empty, 'false', '0'), and false when the key does
\* not appear.
C22_PresenceFlag ==
    (ParseDone /\ parsed.ok /\ SchemeOf(arg) \in {"tcp", "unix", "http", "stdio"}
       /\ arg \in SpecGrammarRoutes \cup DocRoutes) =>
        (parsed.val.local_protocol.proxy_protocol <=> "proxy_protocol" \in WrittenKeys(arg))

(***************************************************************************)
(* Properties of parse_local_bind and parse_tunnel_dest (checked under     *)
(* SpecPieces).                                                            *)
(***************************************************************************)
\* the text that follows the optional IPv4 / bracketed IPv6 bind address and
\* its ':'
AfterBind(a) ==
    IF a # <<>> /\ Head(a) \in Ipv4Lits \cup DOMAIN Ipv6Of
    THEN (IF Len(a) >= 2 /\ a[2] = ":" THEN SubSeq(a, 3, Len(a)) ELSE Tail(a))
    ELSE a

\* a text that starts with a numeral of a 16-bit unsigned integer
StartsWithPort(rest) ==
    rest # <<>> /\ rest[1] \in DOMAIN DecimalValue /\ DecimalValue[rest[1]] <= 65535

\* C12: parse_local_bind returns an error, never a socket address, when the
\* text that follows the optional IPv4 / bracketed IPv6 bind address does not
\* start with a port that parses as a 16-bit unsigned integer (a domain name
\* as bind, a bind address with no port, a port above 65535); when it
\* returns a socket address, its port is that port.
C12_BindPort ==
    rpc = "bind" =>
        /\ ~StartsWithPort(AfterBind(arg)) => (~parsed.ok /\ parsed.kind = "InvalidInput")
        /\ parsed.ok => parsed.val.local.port = DecimalValue[AfterBind(arg)[1]]
        /\ arg \in { <<"domain.com", ":", "443">>, <<"127.0.0.1">>, <<"70000">>,
                      <<"127.0.0.1", ":", "70000">> } => ~parsed.ok

C12_Witness ==
    /\ rpc = "bind"
    /\ arg = <<"127.0.0.1", ":", "70000">>
    /\ parsed = InvalidInput("cannot parse bind port")

\* the authority of a destination (what precedes '?') and whether it carries
\* a port explicitly
AuthorityOf(a) == IF IndexOf(a, {"?"}) = 0 THEN a ELSE Before(a, IndexOf(a, {"?"}))
HostWritten(a) ==
    AuthorityOf(a) # <<>> /\ AuthorityOf(a)[1] \notin {":", "=", "&"} \cup BracketOpen
    /\ (AuthorityOf(a)[1] \in BracketClosed => AuthorityOf(a)[1] \in DOMAIN Ipv6Of)
PortWritten(a) ==
    /\ Len(AuthorityOf(a)) = 3 /\ AuthorityOf(a)[2] = ":"
    /\ StartsWithPort(<<AuthorityOf(a)[3]>>)
WrittenOptions(a) == [ k \in WrittenKeys(a) |-> WrittenValue(a, k) ]

\* C13: for every destination host:port[?k=v&...], parse_tunnel_dest returns
\* exactly the written host, the written port (443 included) and the written
\* key/value pairs; it returns Ok with a port only when the authority carries
\* that port explicitly, and the error 'cannot parse remote port' when the
\* authority carries none.  (The host is compared as the URL parser
\* normalises it, so that a violation is one of the port or of the options.)
C13_DestAsWritten ==
    rpc = "dest" =>
        /\ (HostWritten(arg) /\ PortWritten(arg)) =>
              parsed = Ok([ host |-> NormalisedHost(AuthorityOf(arg)[1]),
                            port |-> DecimalValue[AuthorityOf(arg)[3]],
                            options |-> WrittenOptions(arg) ])
        /\ parsed.ok => PortWritten(arg)
        /\ (HostWritten(arg) /\ Len(AuthorityOf(arg)) <= 2) =>
              parsed = InvalidInput("cannot parse remote port")


(***************************************************************************)
(* Properties of main (checked under Spec).                                *)
(***************************************************************************)
ClientRuns == called # None /\ The(called).entry = "run_client"
ServerRuns == called # None /\ The(called).entry = "run_server"
Tags(tunnels) == { tunnels[i].local_protocol.tag : i \in DOMAIN tunnels }

\* C4: in every Client configuration that reaches run_client, whichever of
\* the command line, the config file, the WSTUNNEL_ variables or their merge
\* produced it, every entry of remote_to_local has a Reverse* variant and
\* every entry of local_to_remote a non-reverse variant.
C4_RouteVariants ==
    ClientRuns =>
        /\ Tags(The(called).config.remote_to_local) \subseteq ReverseTags
        /\ Tags(The(called).config.local_to_remote) \subseteq ForwardTags

\* a client that runs with a -R route of the command line and a
\* local_to_remote route of the config file
C4_Witness ==
    /\ ClientRuns
    /\ "remote_to_local" \in DOMAIN argv.options
    /\ config_input.client # None
    /\ "local_to_remote" \in DOMAIN The(config_input.client)
    /\ The(called).config.remote_to_local # <<>>
    /\ The(called).config.local_to_remote # <<>>

\* C6: whenever the user supplied an option on the command line, the
\* configuration handed to run_client / run_server carries the command-line
\* value, whatever the config file gives for it; the same for the global
\* log_lvl and no_color.
C6_CliPrecedence ==
    called # None =>
        /\ \A f \in DOMAIN argv.options :
              The(called).config[f] = Typed(ParseOptions(argv.options))[f]
        /\ argv.log_lvl # None => args.log_lvl = The(argv.log_lvl)
        /\ argv.no_color # None => args.no_color = argv.no_color

\* C7: in every Client configuration that reaches run_client, tls_sni_disable
\* never holds together with a set tls_sni_override or with tls_ech_enable.
C7_SniDisableExclusive ==
    ClientRuns =>
        ~ /\ The(called).config.tls_sni_disable
          /\ \/ The(called).config.tls_sni_override # None
             \/ The(called).config.tls_ech_enable

\* C8: in every Server configuration that reaches run_server, restrict_config
\* is never set together with restrict_to or restrict_http_upgrade_path_prefix.
C8_RestrictConfigExclusive ==
    ServerRuns =>
        ~ /\ The(called).config.restrict_config # None
          /\ \/ The(called).config.restrict_to # None
             \/ The(called).config.restrict_http_upgrade_path_prefix # None

\* the values --nb-worker-threads can take in a run
WorkerThreads == { None } \cup { Some(c[3]) : c \in { g \in GlobalCliChoices : g[2] = "nb_worker_threads" } }

\* C9: --nb-worker-threads has no effect: the run of main on the same command
\* line and configuration input with any other value of the flag ends in the
\* same place, with the same engine entry point called on the same
\* configuration (or the same error), the same logger and the same args but
\* for the flag itself.
C9_WorkerThreadsUnread ==
    pc \in Ended =>
        \A n \in WorkerThreads :
            LET other == RunMain([argv EXCEPT !.nb_worker_threads = n], config_input, MainStart)
            IN  [other EXCEPT !.args.nb_worker_threads = args.nb_worker_threads] = MainState

C9_Witness ==
    /\ pc = "running"
    /\ argv.nb_worker_threads = Some(4)
    /\ args.nb_worker_threads = Some(4)
    /\ called # None

\* C15: at most one Stdio tunnel runs per process: no Client configuration
\* that reaches run_client has more than one local_to_remote entry with the
\* Stdio protocol.
C15_SingleStdio ==
    ClientRuns => StdioCount(The(called).config.local_to_remote) <= 1

\* the role an engine entry point stands for, and whether a source gives a
\* value to a field of that role: the command line, or the role's section of
\* the configuration input
RoleOf(entry) == IF entry = "run_client" THEN "client" ELSE "server"
CliGives(f) == f \in DOMAIN argv.options
FileGives(role, f) == config_input[role] # None /\ f \in DOMAIN The(config_input[role])

\* C14: run_client (resp. run_server) is invoked only when remote_addr was
\* explicitly provided, as the URL argument of the command line or as
\* remote_addr in the client (resp. server) section of the configuration.
C14_ExplicitRemoteAddr ==
    called # None =>
        \/ CliGives("remote_addr")
        \/ FileGives(RoleOf(The(called).entry), "remote_addr")

\* the three places that state the default of a duration field agree: clap's
\* default_value, the Default impl and the value the merge compares against
DefaultsAgree ==
    /\ ServerClapDefault.remote_to_local_server_idle_timeout
            = ServerDefault.remote_to_local_server_idle_timeout
    /\ ServerDefault.remote_to_local_server_idle_timeout = ServerIdleTimeoutDefault
    /\ ClientClapDefault.connection_retry_max_backoff
            = ClientDefault.connection_retry_max_backoff
    /\ ClientDefault.connection_retry_max_backoff = ConnectionRetryMaxBackoffDefault
    /\ ConnectionRetryMaxBackoffDefault = 5 * 60
    /\ ClientClapDefault.reverse_tunnel_connection_retry_max_backoff
            = ClientDefault.reverse_tunnel_connection_retry_max_backoff
    /\ ClientDefault.reverse_tunnel_connection_retry_max_backoff = ReverseRetryMaxBackoffDefault
    /\ ReverseRetryMaxBackoffDefault = 1

NoSourceGives(role, f) == ~CliGives(f) /\ ~FileGives(role, f)

UnambiguousRole ==
    IF config_input.mode # None
    THEN (IF /\ The(config_input.mode) \in {"client", "server"}
             /\ config_input[The(config_input.mode)] # None
          THEN config_input.mode ELSE None)
    ELSE IF config_input.client # None /\ config_input.server = None THEN Some("client")
    ELSE IF config_input.server # None /\ config_input.client = None THEN Some("server")
    ELSE None

NoSubcommandRole ==
    argv.command = "none" =>
        /\ called # None => UnambiguousRole = Some(RoleOf(The(called).entry))
        /\ (pc \in Ended /\ UnambiguousRole = None) =>
                (pc = "exit" /\ called = None /\ error # "")

\* C17: when no subcommand is given, main starts an engine only if the role
\* is unambiguous (mode client or server with that section present, or no
\* mode and exactly one section), and it is that role's engine; in every
\* other case main ends with an error and calls neither entry point; in
\* every run at most one entry point is called, at most once.
C17_RoleFromConfig ==
    /\ []NoSubcommandRole
    /\ [][called # None => called' = called]_vars

C17_Witness ==
    /\ argv.command = "none"
    /\ config_input.mode = Some("server")
    /\ config_input.server # None
    /\ ServerRuns

OtherRole(role) == IF role = "client" THEN "server" ELSE "client"

\* the configuration input without its mode and without the section of `role`
Without(input, role) == [ input EXCEPT !.mode = None, ![role] = None ]

\* C18: when a subcommand is given, the role that runs is the subcommand's,
\* whatever the mode and the sections of the configuration input; unless the
\* run ends on a configuration file that does not load, it hands the engine
\* what the run without the mode and without the other role's section hands
\* it, and it starts an engine exactly when that run does; and when the
\* chosen role has no section the configuration is the one of the command
\* line.
C18_SubcommandRules ==
    (argv.command # "none" /\ pc \in Ended) =>
        /\ called # None => RoleOf(The(called).entry) = argv.command
        /\ error # "Error: Failed to load config file" =>
                RunMain(argv, Without(config_input, OtherRole(argv.command)), MainStart).called
                    = called
        /\ (called # None /\ config_input[argv.command] = None) =>
                The(called).config = WithFields(ClapDefaultsOf(argv.command),
                                                Typed(ParseOptions(argv.options)))

\* main run from its start up to the step at `stop`
RECURSIVE RunUntil(_, _, _, _)
RunUntil(a, input, s, stop) ==
    IF s.pc \in Ended \cup {stop} THEN s ELSE RunUntil(a, input, StepOf(a, input, s), stop)

BoolFields ==
    {"tls_sni_disable", "tls_ech_enable", "tls_verify_certificate", "websocket_mask_frame",
     "dns_resolver_prefer_ipv4"}

\* the result of a merge, field by field: the command line's value when it
\* differs from the built-in default of the field, the file's otherwise
MergedAsClaimed(role, cli, file, merged) ==
    \A f \in DOMAIN merged :
        /\ merged[f] = IF cli[f] # DefaultsOf(role)[f] THEN cli[f] ELSE file[f]
        /\ merged[f] \in {cli[f], file[f]}
        /\ f \in BoolFields => (merged[f] <=> (cli[f] \/ file[f]))

SelfMerge(config) ==
    /\ config.client # None =>
            merge_client_config(The(config.client), config.client).config = The(config.client)
    /\ config.server # None =>
            merge_server_config(The(config.server), config.server).config = The(config.server)

\* C20: when the role is taken from the configuration input because no
\* subcommand was given, the configuration handed to run_client / run_server
\* is the input's section field for field (a field the section leaves out
\* holding its default): merging a configuration with itself returns it
\* unchanged.
C20_SectionRunsAsIs ==
    /\ config_file # None => SelfMerge(The(config_file))
    /\ (argv.command = "none" /\ called # None) =>
            LET role == RoleOf(The(called).entry)
                given == Typed(ParseOptions(The(config_input[role])))
            IN  \A f \in DOMAIN The(called).config :
                    The(called).config[f] =
                        IF f \in DOMAIN given THEN given[f] ELSE DefaultsOf(role)[f]

C20_Witness ==
    /\ argv.command = "none"
    /\ ClientRuns
    /\ FileGives("client", "connection_min_idle")
    /\ The(called).config.connection_min_idle = 7


====
